---------------------------- MODULE Spec2Model ----------------------------
(***************************************************************************)
(* A model of crewAI's task execution (src/crewai/task.py), of the tool    *)
(* usage callback handler (src/crewai/agents/tools_handler.py) and of the  *)
(* delegation tools (src/crewai/tools/agent_tools.py).                     *)
(*                                                                         *)
(* Spec         one caller thread invoking Task.execute on three tasks,    *)
(*              plus one background thread per asynchronous execution.     *)
(* SpecHandler  one ToolsHandler receiving on_tool_start / on_tool_end     *)
(*              events one after the other.                                *)
(* SpecRace     one ToolsHandler and two threads, each running one tool    *)
(*              invocation (on_tool_start, the tool, on_tool_end).         *)
(* SpecPaired   SpecHandler with every on_tool_start followed by its       *)
(*              on_tool_end before the next on_tool_start.                 *)
(* SpecTools    one Task from its construction on: check_tools, changes of *)
(*              the agents' tools, and what execute hands to the backend.  *)
(* SpecDelegate AgentTools.delegate_work / ask_question on command strings.*)
(* SpecFail     Spec with an execution backend that may raise.             *)
(* SpecFair     the tasks executed in their order by one caller, threads   *)
(*              scheduled fairly, every backend call returning.            *)
(***************************************************************************)
EXTENDS Naturals, Sequences, FiniteSets, TLC

VARIABLES
    async_execution,  \* Task.async_execution, per task (fixed at construction)
    output,           \* Task.output, per task: <<>> is None, else <<TaskOutput>>
    thread,           \* Task.thread, per task: 0 is None, else the id of an execution
    execs,            \* every run of Task._execute so far, in the order they were set up
    main,             \* the caller's thread: its position inside Task.execute
    ret,              \* what the caller's last call of Task.execute returned
    err,              \* the exception the caller's last call of Task.execute raised
    nCalls,           \* how many times Task.execute was called
    finished,         \* ids of the runs of Task._execute that returned, in that order
    last_used_tool,   \* ToolsHandler.last_used_tool: <<>> is {}, else <<[tool, input]>>
    cache,            \* the calls of ToolsHandler.cache.add so far, in order
    handlerErr,       \* the exception the last handler event raised
    lastEvent,        \* the last event the handler received (SpecHandler)
    nEvents,          \* how many events the handler received (SpecHandler)
    inv,              \* per thread, its tool invocation and its position (SpecRace)
    tk,               \* the Task of SpecTools: whether constructed, its tools, its agent
    agentTools,       \* Agent.tools, per agent (SpecTools)
    handed,           \* the last call of agent.execute_task made by execute (SpecTools)
    nOps,             \* how many operations were done on the Task (SpecTools)
    agents,           \* AgentTools.agents: the roles of the agents, in list order
    deleg,            \* the last call of delegate_work / ask_question and what it did
    nDeleg            \* how many times delegate_work / ask_question were called

taskVars == <<async_execution, output, thread, execs, main, ret, err, nCalls, finished>>

handlerVars == <<last_used_tool, cache, handlerErr, lastEvent, nEvents, inv>>

toolsVars == <<tk, agentTools, handed, nOps>>

delegVars == <<agents, deleg, nDeleg>>

restVars == <<toolsVars, delegVars>>

vars == <<taskVars, handlerVars, restVars>>

-----------------------------------------------------------------------------
(* Bounds of the model. *)

MaxCalls == 3

(* Python's None where a string or an agent is expected, and "no exception". *)
None == "<None>"
NoError == "<no error>"

Tasks == {1, 2, 3}

(* The agents and the context string a caller of Task.execute may supply. *)
AgentArgs == {None, "a2"}
ContextArgs == {"X"}

(* Task.description *)
description == [t \in Tasks |-> CASE t = 1 -> "d1" [] t = 2 -> "d2" [] OTHER -> "d3"]

(* Task.agent: task 1 has an agent attached, tasks 2 and 3 have none. *)
agent == [t \in Tasks |-> IF t = 1 THEN "a1" ELSE None]

(* Task.context: task 3 depends on tasks 1 and 2, declared in that order. *)
context == [t \in Tasks |-> IF t = 3 THEN <<1, 2>> ELSE <<>>]

(* Task.callback: whether the task has one. *)
callback == [t \in Tasks |-> t # 2]

-----------------------------------------------------------------------------
(* "\n".join(context) *)
RECURSIVE JoinNL(_)
JoinNL(strs) ==
    IF strs = <<>> THEN ""
    ELSE IF Len(strs) = 1 THEN strs[1]
    ELSE strs[1] \o "\n" \o JoinNL(Tail(strs))

(* TaskOutput(description=self.description, result=result) *)
TaskOutput(t, result) == [description |-> description[t], result |-> result]

(* agent.execute_task(task=..., context=..., tools=...): the execution backend is
   opaque; its e-th call returns a string that no other call returns, so that
   two results are never equal by accident. *)
BackendResult(e) == "r" \o <<"1", "2", "3", "4", "5", "6", "7", "8", "9">>[e]

(* A context assembled newest first. *)
PrependResult(ctx, r) == <<r>> \o ctx

(* Line 120: context.append(task.output.result) *)
AppendResult(ctx, r) == Append(ctx, r)

(* A join that does not wait. *)
JoinedAtOnce(id) == TRUE

(* A join that never returns. *)
JoinedNever(id) == FALSE

(* Line 119: thread.join() returns once the thread has terminated, by returning
   from _execute or by an exception raised in it. *)
Joined(id) == execs[id].pc \in {"done", "failed"}

(* The attached agent forgotten. *)
ResolveAgentArgOnly(t, a) == a

(* Line 109: agent = agent or self.agent *)
ResolveAgent(t, a) == IF a # None THEN a ELSE agent[t]

IdleMain == [pc |-> "idle", task |-> 1, agentArg |-> None, contextArg |-> None,
             agent |-> None, i |-> 0, context |-> <<>>, exec |-> 0]

(* The caller's thread once execute has returned or raised: the locals of the call
   are gone, what it was called with stays on record. *)
Return(m) == [m EXCEPT !.pc = "idle", !.i = 0, !.context = <<>>]

(* The thread that runs Task._execute when the task is asynchronous, or the inline
   call when it is not: the arguments it was given and how far it has come. *)
NewExec(t, ag, ctx, mode) ==
    [task |-> t, mode |-> mode, agent |-> ag, context |-> ctx, pc |-> "call",
     result |-> None, stored |-> None, cbArg |-> None,
     calls |-> 0, assigns |-> 0, cbs |-> 0]

(* _execute run inline whatever async_execution says. *)
DispatchInline(m, ctx) ==
    /\ execs' = Append(execs, NewExec(m.task, m.agent, ctx, "sync"))
    /\ main' = [m EXCEPT !.pc = "run", !.exec = Len(execs) + 1]
    /\ err' = NoError
    /\ UNCHANGED <<thread, ret>>

(* Lines 123-137: with the context settled, start the thread (asynchronous task)
   and return None, or run _execute inline (synchronous task). *)
Dispatch(m, ctx) ==
    LET t == m.task
        id == Len(execs) + 1
    IN  IF async_execution[t]
        THEN /\ execs' = Append(execs, NewExec(t, m.agent, ctx, "async"))
             /\ thread' = [thread EXCEPT ![t] = id]
             /\ main' = Return([m EXCEPT !.exec = id])
             /\ ret' = None
             /\ err' = NoError
        ELSE /\ execs' = Append(execs, NewExec(t, m.agent, ctx, "sync"))
             /\ main' = [m EXCEPT !.pc = "run", !.exec = id]
             /\ err' = NoError
             /\ UNCHANGED <<thread, ret>>

(* The loop without the join of lines 118-119. *)
LoopPcNoJoin(t, i) == "read"

(* The position of the loop of lines 117-120 at upstream task number i. *)
LoopPc(t, i) == IF async_execution[context[t][i]] THEN "join" ELSE "read"

(* Task.execute, lines 109-116 (and 123-137 for a task without context). *)
execute(t, a, c) ==
    /\ main.pc = "idle"
    /\ nCalls < MaxCalls
    /\ nCalls' = nCalls + 1
    /\ LET ag == ResolveAgent(t, a)
           m == [IdleMain EXCEPT !.task = t, !.agentArg = a, !.contextArg = c,
                                 !.agent = ag]
       IN  IF ag = None
           THEN /\ err' = "Exception"
                /\ main' = m
                /\ UNCHANGED <<output, thread, execs, ret, finished>>
           ELSE IF context[t] # <<>>
           THEN /\ main' = [m EXCEPT !.pc = LoopPc(t, 1), !.i = 1]
                /\ err' = NoError
                /\ UNCHANGED <<output, thread, execs, ret, finished>>
           ELSE /\ Dispatch(m, c)
                /\ UNCHANGED <<output, finished>>
    /\ UNCHANGED async_execution

(* Line 119: task.thread.join() on an asynchronous upstream task. *)
execute_join ==
    /\ main.pc = "join"
    /\ LET u == context[main.task][main.i]
       IN  IF thread[u] = 0
           THEN /\ err' = "AttributeError"
                /\ main' = Return(main)
           ELSE /\ Joined(thread[u])
                /\ main' = [main EXCEPT !.pc = "read"]
                /\ UNCHANGED err
    /\ UNCHANGED <<async_execution, output, thread, execs, ret, nCalls, finished>>

(* Line 120 written to leave out an upstream task without output. *)
execute_read_skip_missing ==
    /\ main.pc = "read"
    /\ LET t == main.task
           u == context[t][main.i]
           ctx == IF output[u] = <<>> THEN main.context
                  ELSE AppendResult(main.context, output[u][1].result)
       IN  IF main.i < Len(context[t])
           THEN /\ main' = [main EXCEPT !.pc = LoopPc(t, main.i + 1),
                                        !.i = main.i + 1, !.context = ctx]
                /\ UNCHANGED <<output, thread, execs, ret, err, finished>>
           ELSE /\ Dispatch([main EXCEPT !.context = ctx], JoinNL(ctx))
                /\ UNCHANGED <<output, finished>>
    /\ UNCHANGED <<async_execution, nCalls>>

(* Line 120: context.append(task.output.result); after the last upstream task,
   line 121 and the rest of execute. *)
execute_read ==
    /\ main.pc = "read"
    /\ LET t == main.task
           u == context[t][main.i]
       IN  IF output[u] = <<>>
           THEN /\ err' = "AttributeError"
                /\ main' = Return(main)
                /\ UNCHANGED <<output, thread, execs, ret, finished>>
           ELSE LET ctx == AppendResult(main.context, output[u][1].result)
                IN  IF main.i < Len(context[t])
                    THEN /\ main' = [main EXCEPT !.pc = LoopPc(t, main.i + 1),
                                                 !.i = main.i + 1, !.context = ctx]
                         /\ UNCHANGED <<output, thread, execs, ret, err, finished>>
                    ELSE /\ Dispatch([main EXCEPT !.context = ctx], JoinNL(ctx))
                         /\ UNCHANGED <<output, finished>>
    /\ UNCHANGED <<async_execution, nCalls>>

(* Task._execute, line 152: the call of the execution backend. *)
execute_task(e) ==
    /\ e \in 1..Len(execs)
    /\ execs[e].pc = "call"
    /\ execs' = [execs EXCEPT ![e].pc = "assign", ![e].result = BackendResult(e),
                              ![e].calls = @ + 1]
    /\ UNCHANGED <<async_execution, output, thread, main, ret, err, nCalls, finished>>

(* Task._execute, line 152, when the execution backend raises: _execute is left
   at once; an inline run takes execute with it, a thread just ends. *)
execute_task_raises(e) ==
    /\ e \in 1..Len(execs)
    /\ execs[e].pc = "call"
    /\ execs' = [execs EXCEPT ![e].pc = "failed", ![e].calls = @ + 1]
    /\ IF execs[e].mode = "sync"
       THEN /\ main' = Return(main)
            /\ err' = "BackendError"
       ELSE UNCHANGED <<main, err>>
    /\ UNCHANGED <<async_execution, output, thread, ret, nCalls, finished>>

(* The output kept in one place for all tasks, as a class attribute would be. *)
assign_output_shared(e) ==
    /\ e \in 1..Len(execs)
    /\ execs[e].pc = "assign"
    /\ output' = [t \in Tasks |-> <<TaskOutput(execs[e].task, execs[e].result)>>]
    /\ execs' = [execs EXCEPT ![e].pc = "callback", ![e].stored = execs[e].result,
                              ![e].assigns = @ + 1]
    /\ UNCHANGED <<async_execution, thread, main, ret, err, nCalls, finished>>

(* Task._execute, line 153: self.output = TaskOutput(...). *)
assign_output(e) ==
    /\ e \in 1..Len(execs)
    /\ execs[e].pc = "assign"
    /\ output' = [output EXCEPT ![execs[e].task] =
                      <<TaskOutput(execs[e].task, execs[e].result)>>]
    /\ execs' = [execs EXCEPT ![e].pc = "callback", ![e].stored = execs[e].result,
                              ![e].assigns = @ + 1]
    /\ UNCHANGED <<async_execution, thread, main, ret, err, nCalls, finished>>

(* Task._execute, lines 154-155: self.callback(self.output) if there is a callback,
   then return result; an inline run returns it from execute (line 137). *)
invoke_callback(e) ==
    /\ e \in 1..Len(execs)
    /\ execs[e].pc = "callback"
    /\ LET t == execs[e].task
       IN  execs' = IF callback[t]
                    THEN [execs EXCEPT ![e].pc = "done", ![e].cbs = @ + 1,
                                       ![e].cbArg = output[t][1].result]
                    ELSE [execs EXCEPT ![e].pc = "done"]
    /\ finished' = Append(finished, e)
    /\ IF execs[e].mode = "sync"
       THEN /\ main' = Return(main)
            /\ ret' = execs[e].result
            /\ err' = NoError
       ELSE UNCHANGED <<main, ret, err>>
    /\ UNCHANGED <<async_execution, output, thread, nCalls>>

TaskInit ==
    /\ async_execution \in [Tasks -> BOOLEAN]
    /\ output = [t \in Tasks |-> <<>>]
    /\ thread = [t \in Tasks |-> 0]
    /\ execs = <<>>
    /\ main = IdleMain
    /\ ret = None
    /\ err = NoError
    /\ nCalls = 0
    /\ finished = <<>>

(* No Task under construction, no AgentTools in use. *)
NoTask == [built |-> FALSE, tools |-> <<>>, agent |-> None,
           ctorTools |-> <<>>, ctorAgent |-> None, ctorAgentTools |-> <<>>]
NoHanded == [agent |-> None, tools |-> <<>>, toolsArg |-> <<>>, agentTools |-> <<>>]
NoDeleg == [via |-> "", command |-> "", returned |-> None, raised |-> NoError,
            calls |-> <<>>]

ToolsIdle ==
    /\ tk = NoTask
    /\ agentTools = <<>>
    /\ handed = NoHanded
    /\ nOps = 0

DelegIdle ==
    /\ agents = <<>>
    /\ deleg = NoDeleg
    /\ nDeleg = 0

RestIdle == ToolsIdle /\ DelegIdle

-----------------------------------------------------------------------------
(* ToolsHandler (src/crewai/agents/tools_handler.py). *)

MaxEvents == 4

(* Line 42: the names on_tool_start does not record. *)
ReservedNames == {"invalid_tool", "_Exception"}

(* CacheTools().name, the name of the cache-lookup tool (crewai/tools/cache_tools.py). *)
CacheToolsName == "Hit Cache"

(* The tool names, inputs and outputs the events carry. A missing "name" key of
   serialized makes serialized.get("name") None. *)
ToolNames == {"Calculator", "invalid_tool", "_Exception", CacheToolsName, None}
ToolInputs == {"6*7", "2+2"}
ToolOutputs == {"42",
                "invalid format",
                "Calculater is not a valid tool, try another one.",
                "Invalid or incomplete response",
                "Invalid Format: Missing 'Action:' after 'Thought:'"}

(* Python's  sub in s  on strings. *)
IsSubstring(sub, s) ==
    \E i \in 1..(Len(s) + 1 - Len(sub)) : SubSeq(s, i, i + Len(sub) - 1) = sub

(* The negation of the condition of lines 59-63. *)
HasFailureSignal(out) ==
    \/ IsSubstring("is not a valid tool", out)
    \/ IsSubstring("Invalid or incomplete response", out)
    \/ IsSubstring("Invalid Format", out)

(* A record that keeps the first tool it was given. *)
RecordToolOnce(name, input) ==
    IF name \notin ReservedNames /\ last_used_tool = <<>>
    THEN <<[tool |-> name, input |-> input]>>
    ELSE last_used_tool

(* A record that takes any name. *)
RecordAnyTool(name, input) == <<[tool |-> name, input |-> input]>>

(* Lines 41-47: last_used_tool after on_tool_start(name, input). *)
RecordTool(name, input) ==
    IF name \notin ReservedNames
    THEN <<[tool |-> name, input |-> input]>>
    ELSE last_used_tool

NoEvent == [kind |-> "none", name |-> "", input |-> "", output |-> ""]

(* ToolsHandler.on_tool_start *)
on_tool_start(name, input) ==
    /\ nEvents < MaxEvents
    /\ nEvents' = nEvents + 1
    /\ lastEvent' = [kind |-> "start", name |-> name, input |-> input, output |-> ""]
    /\ last_used_tool' = RecordTool(name, input)
    /\ handlerErr' = NoError
    /\ UNCHANGED <<cache, inv>>

(* Lines 59-69 with the lookup of the record first: a KeyError on an empty record
   whatever the output. *)
EndEffectLookupFirst(out) ==
    IF last_used_tool = <<>>
    THEN handlerErr' = "KeyError" /\ UNCHANGED cache
    ELSE /\ handlerErr' = NoError
         /\ IF ~HasFailureSignal(out) /\ last_used_tool[1].tool # CacheToolsName
            THEN cache' = Append(cache, [tool |-> last_used_tool[1].tool,
                                         input |-> last_used_tool[1].input,
                                         output |-> out])
            ELSE UNCHANGED cache

(* Lines 59-69 with the output written under the name of the tool alone. *)
EndEffectNoInput(out) ==
    IF HasFailureSignal(out)
    THEN handlerErr' = NoError /\ UNCHANGED cache
    ELSE IF last_used_tool = <<>>
    THEN handlerErr' = "KeyError" /\ UNCHANGED cache
    ELSE /\ handlerErr' = NoError
         /\ IF last_used_tool[1].tool # CacheToolsName
            THEN cache' = Append(cache, [tool |-> last_used_tool[1].tool,
                                         input |-> "",
                                         output |-> out])
            ELSE UNCHANGED cache

(* Lines 59-69 with the record read by .get: no KeyError, an entry with a missing
   tool and input on the empty record. *)
EndEffectMissingKeys(out) ==
    /\ handlerErr' = NoError
    /\ IF HasFailureSignal(out)
       THEN UNCHANGED cache
       ELSE IF last_used_tool = <<>>
       THEN cache' = Append(cache, [tool |-> None, input |-> None, output |-> out])
       ELSE IF last_used_tool[1].tool # CacheToolsName
       THEN cache' = Append(cache, [tool |-> last_used_tool[1].tool,
                                    input |-> last_used_tool[1].input,
                                    output |-> out])
       ELSE UNCHANGED cache

(* Lines 59-69: what on_tool_end(output) does to the cache, and the KeyError of
   last_used_tool["tool"] on the empty record. *)
EndEffect(out) ==
    IF HasFailureSignal(out)
    THEN handlerErr' = NoError /\ UNCHANGED cache
    ELSE IF last_used_tool = <<>>
    THEN handlerErr' = "KeyError" /\ UNCHANGED cache
    ELSE /\ handlerErr' = NoError
         /\ IF last_used_tool[1].tool # CacheToolsName
            THEN cache' = Append(cache, [tool |-> last_used_tool[1].tool,
                                         input |-> last_used_tool[1].input,
                                         output |-> out])
            ELSE UNCHANGED cache

(* ToolsHandler.on_tool_end *)
on_tool_end(out) ==
    /\ nEvents < MaxEvents
    /\ nEvents' = nEvents + 1
    /\ lastEvent' = [kind |-> "end", name |-> "", input |-> "", output |-> out]
    /\ EndEffect(out)
    /\ UNCHANGED <<last_used_tool, inv>>

Threads == {1, 2}

HandlerInit ==
    /\ last_used_tool = <<>>
    /\ cache = <<>>
    /\ handlerErr = NoError
    /\ lastEvent = NoEvent
    /\ nEvents = 0
    /\ inv = [p \in Threads |-> [pc |-> "none"]]

(* The tasks stay as constructed while the handler is looked at. *)
TaskIdle ==
    /\ async_execution = [t \in Tasks |-> FALSE]
    /\ output = [t \in Tasks |-> <<>>]
    /\ thread = [t \in Tasks |-> 0]
    /\ execs = <<>>
    /\ main = IdleMain
    /\ ret = None
    /\ err = NoError
    /\ nCalls = 0
    /\ finished = <<>>

InitHandler == TaskIdle /\ HandlerInit /\ RestIdle

NextHandler ==
    \/ /\ \E name \in ToolNames, input \in ToolInputs : on_tool_start(name, input)
       /\ UNCHANGED <<taskVars, restVars>>
    \/ /\ \E out \in ToolOutputs : on_tool_end(out)
       /\ UNCHANGED <<taskVars, restVars>>

SpecHandler == InitHandler /\ [][NextHandler]_vars

(* The events properly paired: every on_tool_start is followed by its on_tool_end
   before the next on_tool_start, and no on_tool_end comes without its start. *)
paired_on_tool_start(name, input) ==
    /\ lastEvent.kind # "start"
    /\ on_tool_start(name, input)

paired_on_tool_end(out) ==
    /\ lastEvent.kind = "start"
    /\ on_tool_end(out)

NextPaired ==
    \/ /\ \E name \in ToolNames, input \in ToolInputs : paired_on_tool_start(name, input)
       /\ UNCHANGED <<taskVars, restVars>>
    \/ /\ \E out \in ToolOutputs : paired_on_tool_end(out)
       /\ UNCHANGED <<taskVars, restVars>>

SpecPaired == InitHandler /\ [][NextPaired]_vars

-----------------------------------------------------------------------------
(* Two threads on one ToolsHandler, no lock: each thread runs one tool invocation.
   on_tool_start is one assignment; on_tool_end reads self.last_used_tool three
   times (lines 64, 66 and 67), and another thread may run between the reads. *)

RaceNames == {"Calculator", "Search", "invalid_tool", CacheToolsName}
RaceInput == [p \in Threads |-> IF p = 1 THEN "6*7" ELSE "2+2"]
RaceOutput == [p \in Threads |-> IF p = 1 THEN "42" ELSE "4"]

InFlight(p) == inv[p].pc \in {"run", "tool", "input"}

(* on_tool_start of thread p's invocation, lines 41-47. A thread whose invocation
   is between its own start and its cache write notes that another invocation's
   start has been recorded meanwhile. *)
race_on_tool_start(p) ==
    /\ inv[p].pc = "start"
    /\ last_used_tool' = RecordTool(inv[p].name, inv[p].input)
    /\ inv' = [q \in Threads |->
                 IF q = p THEN [inv[q] EXCEPT !.pc = "run"]
                 ELSE IF InFlight(q) /\ last_used_tool' # last_used_tool
                 THEN [inv[q] EXCEPT !.overlapped = TRUE]
                 ELSE inv[q]]
    /\ UNCHANGED <<cache, handlerErr, lastEvent, nEvents>>

(* on_tool_end of thread p, lines 59-64: the failure signals, then the first read
   of self.last_used_tool["tool"]. *)
race_end_check(p) ==
    /\ inv[p].pc = "run"
    /\ IF HasFailureSignal(inv[p].output)
       THEN /\ inv' = [inv EXCEPT ![p].pc = "done"]
            /\ UNCHANGED handlerErr
       ELSE IF last_used_tool = <<>>
       THEN /\ inv' = [inv EXCEPT ![p].pc = "done"]
            /\ handlerErr' = "KeyError"
       ELSE /\ inv' = [inv EXCEPT ![p].pc = IF last_used_tool[1].tool # CacheToolsName
                                             THEN "tool" ELSE "done"]
            /\ UNCHANGED handlerErr
    /\ UNCHANGED <<last_used_tool, cache, lastEvent, nEvents>>

(* on_tool_end of thread p, line 66: tool=self.last_used_tool["tool"]. *)
race_end_read_tool(p) ==
    /\ inv[p].pc = "tool"
    /\ inv' = [inv EXCEPT ![p].pc = "input", ![p].tool = last_used_tool[1].tool]
    /\ UNCHANGED <<last_used_tool, cache, handlerErr, lastEvent, nEvents>>

(* on_tool_end of thread p, lines 65-69: input=self.last_used_tool["input"] and
   the call of self.cache.add. *)
race_end_add(p) ==
    /\ inv[p].pc = "input"
    /\ cache' = Append(cache, [tool |-> inv[p].tool,
                               input |-> last_used_tool[1].input,
                               output |-> inv[p].output])
    /\ inv' = [inv EXCEPT ![p].pc = "done"]
    /\ UNCHANGED <<last_used_tool, handlerErr, lastEvent, nEvents>>

InitRace ==
    /\ TaskIdle
    /\ RestIdle
    /\ last_used_tool = <<>>
    /\ cache = <<>>
    /\ handlerErr = NoError
    /\ lastEvent = NoEvent
    /\ nEvents = 0
    /\ \E n1, n2 \in RaceNames :
        inv = [p \in Threads |->
                 [pc |-> "start", name |-> IF p = 1 THEN n1 ELSE n2,
                  input |-> RaceInput[p], output |-> RaceOutput[p],
                  tool |-> "", overlapped |-> FALSE]]

NextRace ==
    \/ (\E p \in Threads : race_on_tool_start(p)) /\ UNCHANGED <<taskVars, restVars>>
    \/ (\E p \in Threads : race_end_check(p)) /\ UNCHANGED <<taskVars, restVars>>
    \/ (\E p \in Threads : race_end_read_tool(p)) /\ UNCHANGED <<taskVars, restVars>>
    \/ (\E p \in Threads : race_end_add(p)) /\ UNCHANGED <<taskVars, restVars>>

SpecRace == InitRace /\ [][NextRace]_vars


-----------------------------------------------------------------------------
(* One Task from its construction on (task.py, check_tools and execute): which
   tools it holds and which tools execute hands to agent.execute_task. *)

MaxOps == 3

ToolAgents == {"a1", "a2"}
ToolLists == {<<>>, <<"search">>, <<"calc", "search">>}

(* Agent.tools of an agent, [] when there is no agent. *)
ToolsOfAgent(ag) == IF ag = None THEN <<>> ELSE agentTools[ag]

(* Lines 85-86: self.tools after the validator, from the tools and the agent the
   constructor was given. extend copies the agent's tools of that moment. *)
check_tools(tools, ag) ==
    IF tools = <<>> /\ ag # None /\ agentTools[ag] # <<>>
    THEN tools \o agentTools[ag]
    ELSE tools

(* The task's tools before the caller's. *)
ResolveToolsOwnFirst(toolsArg, own) == IF own # <<>> THEN own ELSE toolsArg

(* Line 123: tools = tools or self.tools *)
ResolveTools(toolsArg, own) == IF toolsArg # <<>> THEN toolsArg ELSE own

(* Task(description=..., tools=tools, agent=ag): lines 44-47, 26-28, 75-87. *)
Task_construct(tools, ag) ==
    /\ ~tk.built
    /\ tk' = [built |-> TRUE, tools |-> check_tools(tools, ag), agent |-> ag,
              ctorTools |-> tools, ctorAgent |-> ag,
              ctorAgentTools |-> ToolsOfAgent(ag)]
    /\ UNCHANGED <<agentTools, handed, nOps>>

(* The caller gives an agent other tools; the Task holds no reference to the
   agent's list (line 86 copied its elements). *)
set_agent_tools(ag, tools) ==
    /\ tk.built
    /\ nOps < MaxOps
    /\ nOps' = nOps + 1
    /\ agentTools' = [agentTools EXCEPT ![ag] = tools]
    /\ UNCHANGED <<tk, handed>>

(* The caller attaches another agent to the constructed Task: a plain attribute
   assignment, the validator of lines 75-87 does not run again. *)
set_task_agent(ag) ==
    /\ tk.built
    /\ nOps < MaxOps
    /\ nOps' = nOps + 1
    /\ tk' = [tk EXCEPT !.agent = ag]
    /\ UNCHANGED <<agentTools, handed>>

(* execute taking the tools of the agent that performs the execution into the
   Task each time. *)
tools_execute_resync(a, toolsArg) ==
    /\ tk.built
    /\ nOps < MaxOps
    /\ nOps' = nOps + 1
    /\ LET ag == IF a # None THEN a ELSE tk.agent
       IN  IF ag = None
           THEN UNCHANGED <<handed, tk>>
           ELSE /\ tk' = [tk EXCEPT !.tools = agentTools[ag]]
                /\ handed' = [agent |-> ag, toolsArg |-> toolsArg,
                              tools |-> ResolveTools(toolsArg, tk'.tools),
                              agentTools |-> agentTools[ag]]
    /\ UNCHANGED agentTools

(* Task.execute(agent=a, tools=toolsArg), lines 109-113 and 123-136: the agent and
   the tools that agent.execute_task is called with. *)
tools_execute(a, toolsArg) ==
    /\ tk.built
    /\ nOps < MaxOps
    /\ nOps' = nOps + 1
    /\ LET ag == IF a # None THEN a ELSE tk.agent
       IN  IF ag = None
           THEN UNCHANGED handed
           ELSE handed' = [agent |-> ag, toolsArg |-> toolsArg,
                           tools |-> ResolveTools(toolsArg, tk.tools),
                           agentTools |-> agentTools[ag]]
    /\ UNCHANGED <<agentTools, tk>>

InitTools ==
    /\ TaskIdle
    /\ HandlerInit
    /\ DelegIdle
    /\ tk = NoTask
    /\ agentTools \in [ToolAgents -> ToolLists]
    /\ handed = NoHanded
    /\ nOps = 0

NextTools ==
    \/ /\ \E tools \in ToolLists, ag \in ToolAgents \cup {None} : Task_construct(tools, ag)
       /\ UNCHANGED <<taskVars, handlerVars, delegVars>>
    \/ /\ \E ag \in ToolAgents, tools \in ToolLists : set_agent_tools(ag, tools)
       /\ UNCHANGED <<taskVars, handlerVars, delegVars>>
    \/ /\ \E ag \in ToolAgents \cup {None} : set_task_agent(ag)
       /\ UNCHANGED <<taskVars, handlerVars, delegVars>>
    \/ /\ \E a \in ToolAgents \cup {None}, toolsArg \in ToolLists : tools_execute(a, toolsArg)
       /\ UNCHANGED <<taskVars, handlerVars, delegVars>>

SpecTools == InitTools /\ [][NextTools]_vars


-----------------------------------------------------------------------------
(* AgentTools (src/crewai/tools/agent_tools.py). *)

MaxDeleg == 2

(* AgentTools.agents as the list of the agents' roles; an agent is its index. *)
AgentLists == {<<>>,
               <<"Researcher", "Writer">>,
               <<"Writer", "Researcher", "Researcher">>}

Commands == {"Researcher|find facts|background info",
             "Writer|draft|notes",
             "Unknown|x|y",
             "researcher|x|y",
             "Researcher|find facts",
             "Researcher|a|b|c",
             "no pipe at all",
             "",
             "||",
             "|x|y",
             "Researcher||y",
             "Writer|x|"}

(* Python's command.split("|"). *)
RECURSIVE SplitPipe(_)
SplitPipe(s) ==
    LET pipes == {i \in 1..Len(s) : SubSeq(s, i, i) = "|"}
    IN  IF pipes = {} THEN <<s>>
        ELSE LET i == CHOOSE k \in pipes : \A j \in pipes : k <= j
             IN  <<SubSeq(s, 1, i - 1)>> \o SplitPipe(SubSeq(s, i + 1, Len(s)))

(* ", ".join(roles) *)
RECURSIVE JoinComma(_)
JoinComma(roles) ==
    IF roles = <<>> THEN ""
    ELSE IF Len(roles) = 1 THEN roles[1]
    ELSE roles[1] \o ", " \o JoinComma(Tail(roles))

(* self.i18n.errors("agent_tool_missing_param") *)
MissingParamMsg == "Error executing tool. Missing exact 3 pipe (|) separated values."

(* self.i18n.errors("agent_tool_unexsiting_coworker").format(coworkers=...) *)
UnknownCoworkerMsg(roles) ==
    "Error executing tool. Co-worker not found, it must be one of: "
        \o JoinComma(roles) \o "."

(* agent.execute_task(task, context) of the agent at index i: the backend is
   opaque; each agent answers with a string of its own. *)
DelegateResult(i, task, ctx) == "answer of agent " \o <<"1", "2", "3">>[i]

(* The last agent of the role instead of the first. *)
LastMatch(role) ==
    LET matches == {i \in 1..Len(agents) : agents[i] = role}
    IN  CHOOSE k \in matches : \A j \in matches : k >= j

(* Lines 90-94 and 101: the first agent in list order whose role is the role. *)
FirstMatch(role) ==
    LET matches == {i \in 1..Len(agents) : agents[i] = role}
    IN  CHOOSE k \in matches : \A j \in matches : k <= j

(* _execute without the test of line 87 for an empty part. *)
AgentTools_execute_no_empty_test(via, command) ==
    LET parts == SplitPipe(command)
        d == [via |-> via, command |-> command, returned |-> None,
              raised |-> NoError, calls |-> <<>>]
    IN  IF Len(parts) # 3
        THEN [d EXCEPT !.returned = MissingParamMsg]
        ELSE IF \A i \in 1..Len(agents) : agents[i] # parts[1]
        THEN [d EXCEPT !.returned = UnknownCoworkerMsg(agents)]
        ELSE LET i == FirstMatch(parts[1])
             IN  [d EXCEPT !.calls = <<[agent |-> i, task |-> parts[2],
                                        context |-> parts[3]]>>,
                           !.returned = DelegateResult(i, parts[2], parts[3])]

(* AgentTools._execute(command), lines 82-102: what it returns and the calls of
   execute_task it makes. *)
AgentTools_execute(via, command) ==
    LET parts == SplitPipe(command)
        d == [via |-> via, command |-> command, returned |-> None,
              raised |-> NoError, calls |-> <<>>]
    IN  IF Len(parts) # 3
        THEN [d EXCEPT !.returned = MissingParamMsg]
        ELSE IF parts[1] = "" \/ parts[2] = "" \/ parts[3] = ""
        THEN [d EXCEPT !.returned = MissingParamMsg]
        ELSE IF \A i \in 1..Len(agents) : agents[i] # parts[1]
        THEN [d EXCEPT !.returned = UnknownCoworkerMsg(agents)]
        ELSE LET i == FirstMatch(parts[1])
             IN  [d EXCEPT !.calls = <<[agent |-> i, task |-> parts[2],
                                        context |-> parts[3]]>>,
                           !.returned = DelegateResult(i, parts[2], parts[3])]

(* AgentTools.delegate_work(command), line 55 *)
delegate_work(command) ==
    /\ nDeleg < MaxDeleg
    /\ nDeleg' = nDeleg + 1
    /\ deleg' = AgentTools_execute("delegate_work", command)
    /\ UNCHANGED agents

(* AgentTools.ask_question(command), line 66 *)
ask_question(command) ==
    /\ nDeleg < MaxDeleg
    /\ nDeleg' = nDeleg + 1
    /\ deleg' = AgentTools_execute("ask_question", command)
    /\ UNCHANGED agents

InitDelegate ==
    /\ TaskIdle
    /\ HandlerInit
    /\ ToolsIdle
    /\ agents \in AgentLists
    /\ deleg = NoDeleg
    /\ nDeleg = 0

NextDelegate ==
    \/ /\ \E command \in Commands : delegate_work(command)
       /\ UNCHANGED <<taskVars, handlerVars, toolsVars>>
    \/ /\ \E command \in Commands : ask_question(command)
       /\ UNCHANGED <<taskVars, handlerVars, toolsVars>>

SpecDelegate == InitDelegate /\ [][NextDelegate]_vars


Init == TaskInit /\ HandlerInit /\ RestIdle

Next ==
    \/ /\ \E t \in Tasks, a \in AgentArgs, c \in ContextArgs : execute(t, a, c)
       /\ UNCHANGED <<handlerVars, restVars>>
    \/ execute_join /\ UNCHANGED <<handlerVars, restVars>>
    \/ execute_read /\ UNCHANGED <<handlerVars, restVars>>
    \/ (\E e \in 1..MaxCalls : execute_task(e)) /\ UNCHANGED <<handlerVars, restVars>>
    \/ (\E e \in 1..MaxCalls : assign_output(e)) /\ UNCHANGED <<handlerVars, restVars>>
    \/ (\E e \in 1..MaxCalls : invoke_callback(e)) /\ UNCHANGED <<handlerVars, restVars>>

Spec == Init /\ [][Next]_vars

-----------------------------------------------------------------------------
(* The tasks executed once each by one caller, every task after the tasks of its
   context, always with an agent; the caller and every thread are scheduled
   fairly and every backend call returns. *)

execute_in_order(t, a, c) ==
    /\ \A e \in 1..Len(execs) : execs[e].task # t
    /\ \A i \in 1..Len(context[t]) :
            \E e \in 1..Len(execs) : execs[e].task = context[t][i]
    /\ ResolveAgent(t, a) # None
    /\ execute(t, a, c)

(* The steps of the caller inside execute, and of run e of _execute. *)
MainStep == (execute_join \/ execute_read) /\ UNCHANGED <<handlerVars, restVars>>

ExecStep(e) ==
    /\ execute_task(e) \/ assign_output(e) \/ invoke_callback(e)
    /\ UNCHANGED <<handlerVars, restVars>>

NextFair ==
    \/ /\ \E t \in Tasks, a \in AgentArgs, c \in ContextArgs : execute_in_order(t, a, c)
       /\ UNCHANGED <<handlerVars, restVars>>
    \/ execute_join /\ UNCHANGED <<handlerVars, restVars>>
    \/ execute_read /\ UNCHANGED <<handlerVars, restVars>>
    \/ (\E e \in 1..MaxCalls : execute_task(e)) /\ UNCHANGED <<handlerVars, restVars>>
    \/ (\E e \in 1..MaxCalls : assign_output(e)) /\ UNCHANGED <<handlerVars, restVars>>
    \/ (\E e \in 1..MaxCalls : invoke_callback(e)) /\ UNCHANGED <<handlerVars, restVars>>

SpecFair ==
    /\ Init
    /\ [][NextFair]_vars
    /\ WF_vars(MainStep)
    /\ \A e \in 1..MaxCalls : WF_vars(ExecStep(e))

-----------------------------------------------------------------------------
(* The tasks executed in any order, a task not again once a run of _execute was
   set up for it, with an execution backend that may raise; the caller and every
   thread are scheduled fairly. *)

execute_unexecuted(t, a, c) ==
    /\ \A e \in 1..Len(execs) : execs[e].task # t
    /\ ResolveAgent(t, a) # None
    /\ execute(t, a, c)

ExecStepFail(e) ==
    /\ \/ execute_task(e)
       \/ execute_task_raises(e)
       \/ assign_output(e)
       \/ invoke_callback(e)
    /\ UNCHANGED <<handlerVars, restVars>>

NextFail ==
    \/ /\ \E t \in Tasks, a \in AgentArgs, c \in ContextArgs : execute_unexecuted(t, a, c)
       /\ UNCHANGED <<handlerVars, restVars>>
    \/ execute_join /\ UNCHANGED <<handlerVars, restVars>>
    \/ execute_read /\ UNCHANGED <<handlerVars, restVars>>
    \/ (\E e \in 1..MaxCalls : execute_task(e)) /\ UNCHANGED <<handlerVars, restVars>>
    \/ (\E e \in 1..MaxCalls : execute_task_raises(e))
            /\ UNCHANGED <<handlerVars, restVars>>
    \/ (\E e \in 1..MaxCalls : assign_output(e)) /\ UNCHANGED <<handlerVars, restVars>>
    \/ (\E e \in 1..MaxCalls : invoke_callback(e)) /\ UNCHANGED <<handlerVars, restVars>>

SpecFail ==
    /\ Init
    /\ [][NextFail]_vars
    /\ WF_vars(MainStep)
    /\ \A e \in 1..MaxCalls : WF_vars(ExecStepFail(e))

-----------------------------------------------------------------------------
(* Properties of Task.execute, checked under Spec. *)

ExecIds == 1..Len(execs)
ExecsOf(t) == {e \in ExecIds : execs[e].task = t}
ExecutedOnce(t) == Cardinality(ExecsOf(t)) = 1
Upstream(t) == {context[t][i] : i \in 1..Len(context[t])}
FinishedBefore(a, b) ==
    \E i, j \in 1..Len(finished) : i < j /\ finished[i] = a /\ finished[j] = b
AssignCount(t) == LET RECURSIVE Sum(_)
                      Sum(n) == IF n = 0 THEN 0
                                ELSE Sum(n - 1) + (IF execs[n].task = t
                                                   THEN execs[n].assigns ELSE 0)
                  IN  Sum(Len(execs))

(* C1: the context string handed to the execution backend by a task whose upstream
   context tasks were each executed (or started) once is the upstream results
   joined by newlines in declared order, whatever order the upstream tasks
   completed in; a context supplied by the caller is discarded. *)
C1_ContextInDeclaredOrder ==
    \A e \in ExecIds :
        LET t == execs[e].task
        IN  (context[t] # <<>> /\ \A u \in Upstream(t) : ExecutedOnce(u))
            => /\ \A u \in Upstream(t) : output[u] # <<>>
               /\ execs[e].context =
                    JoinNL([i \in 1..Len(context[t]) |-> output[context[t][i]][1].result])

(* Both upstream tasks asynchronous, task 2 completed before task 1, and the
   backend of task 3 was handed task 1's result, a newline, task 2's result. *)
C1_Witness ==
    \E e \in ExecIds :
        /\ execs[e].task = 3
        /\ async_execution[1] /\ async_execution[2]
        /\ ExecutedOnce(1) /\ ExecutedOnce(2)
        /\ FinishedBefore(thread[2], thread[1])
        /\ execs[e].calls = 1
        /\ execs[e].context = execs[thread[1]].result \o "\n" \o execs[thread[2]].result

(* C2: when a dependent's execute reads the output of an asynchronous upstream
   task, the upstream's thread it joined has terminated and has assigned the
   upstream's output. *)
C2_ReadsAfterJoin ==
    main.pc = "read" =>
        LET u == context[main.task][main.i]
        IN  async_execution[u] =>
                /\ thread[u] # 0
                /\ execs[thread[u]].pc = "done"
                /\ execs[thread[u]].assigns = 1
                /\ output[u] # <<>>

(* The dependent is about to read the second of two asynchronous upstream tasks. *)
C2_Witness ==
    /\ main.pc = "read"
    /\ main.i = 2
    /\ async_execution[1] /\ async_execution[2]
    /\ main.context = <<execs[thread[1]].result>>

(* C3 as stated: the output of a task is assigned at most once, repeated calls of
   execute included. *)
C3_AssignedAtMostOnce == \A t \in Tasks : AssignCount(t) <= 1

(* C3 as amended: each execution of a task assigns the task's output at most once
   (so a task executed n times has its output assigned at most n times), and the
   output a task holds was stored there by an execution of that very task. *)
C3_AssignedOncePerExecution ==
    /\ \A e \in ExecIds : execs[e].assigns <= 1
    /\ \A t \in Tasks :
        /\ AssignCount(t) <= Cardinality(ExecsOf(t))
        /\ output[t] # <<>> =>
            /\ output[t][1].description = description[t]
            /\ \E e \in ExecsOf(t) : execs[e].assigns = 1
                                     /\ execs[e].stored = output[t][1].result

(* A task executed twice, its output assigned twice, while another task that was
   never executed has no output. *)
C3_Witness ==
    \E t, u \in Tasks : AssignCount(t) = 2 /\ Cardinality(ExecsOf(t)) = 2
                        /\ output[u] = <<>>

(* C4: a call of execute raises the missing-agent exception exactly when the task
   has no agent attached and the caller supplied none, and that call changes
   nothing: no upstream task joined or read, no execution set up (so no backend
   call, no thread, no callback), every output as it was. *)
C4_NoAgentFailsUnchanged ==
    [][nCalls' = nCalls + 1 =>
        /\ (err' = "Exception") <=> (main'.agentArg = None /\ agent[main'.task] = None)
        /\ err' = "Exception" =>
            /\ UNCHANGED <<output, thread, execs, finished, ret>>
            /\ main'.pc = "idle" /\ main'.i = 0 /\ main'.context = <<>>
            /\ main'.exec = 0]_vars

(* The dependent task 3 was executed without an agent while an upstream thread
   was still running, and the call raised. *)
C4_Witness ==
    /\ err = "Exception"
    /\ main.pc = "idle"
    /\ main.task = 3
    /\ \E e \in ExecIds : execs[e].mode = "async" /\ execs[e].pc = "call"

(* C5 as stated: execute on an asynchronous task never waits for another task. *)
C5_AsyncExecuteNeverWaits ==
    ~ /\ main.pc = "join"
      /\ async_execution[main.task]
      /\ thread[context[main.task][main.i]] # 0
      /\ ~Joined(thread[context[main.task][main.i]])

(* C5 as amended: execute on an asynchronous task never runs the backend call in
   the caller's thread; the step that sets up its execution starts exactly one
   thread, which has not called the backend yet, records it in Task.thread and
   returns None to the caller. Before that step the caller may wait in join. *)
C5_AsyncExecuteSpawnsAndReturns ==
    /\ [](main.pc = "run" => ~async_execution[main.task])
    /\ [](\A e \in ExecIds : (execs[e].mode = "async") <=> async_execution[execs[e].task])
    /\ [][(Len(execs') = Len(execs) + 1 /\ async_execution[execs'[Len(execs')].task]) =>
            LET id == Len(execs')
                t == execs'[id].task
            IN  /\ main.task' = t
                /\ main'.pc = "idle"
                /\ ret' = None
                /\ err' = NoError
                /\ execs'[id].pc = "call" /\ execs'[id].calls = 0
                /\ thread' = [thread EXCEPT ![t] = id]
                /\ output' = output
                /\ \A e \in ExecIds : execs'[e] = execs[e]]_vars

(* execute on the asynchronous task 3 has returned None while the thread it
   started has not called the backend yet. *)
C5_Witness ==
    /\ async_execution[3] /\ thread[3] # 0
    /\ main.pc = "idle" /\ main.task = 3 /\ ret = None /\ err = NoError
    /\ execs[thread[3]].pc = "call"

(* C6: each execution makes one backend call, then assigns the output once with
   that call's result, then invokes the callback once if there is one, with that
   output; a synchronous execute returns the result it stored. *)
C6_CallAssignCallback ==
    /\ \A e \in ExecIds :
        LET x == execs[e]
        IN  /\ x.pc = "call" => x.calls = 0 /\ x.assigns = 0 /\ x.cbs = 0
            /\ x.pc = "assign" => x.calls = 1 /\ x.assigns = 0 /\ x.cbs = 0
            /\ x.pc = "callback" => /\ x.calls = 1 /\ x.assigns = 1 /\ x.cbs = 0
                                    /\ x.stored = x.result
            /\ x.pc = "done" => /\ x.calls = 1 /\ x.assigns = 1
                                /\ x.stored = x.result
                                /\ x.cbs = IF callback[x.task] THEN 1 ELSE 0
                                /\ callback[x.task] => x.cbArg = x.result
    /\ (main.pc = "idle" /\ main.exec # 0 /\ execs[main.exec].mode = "sync")
        => ret = execs[main.exec].stored

-----------------------------------------------------------------------------
(* Properties of ToolsHandler on a sequence of events, checked under SpecHandler. *)

FailureSignals == {"is not a valid tool", "Invalid or incomplete response",
                   "Invalid Format"}
ContainsSignal(out) == \E sig \in FailureSignals : IsSubstring(sig, out)

(* C7: on_tool_start(name, input) for a name that is neither reserved nor the
   cache-lookup tool's, immediately followed by on_tool_end(output) with an output
   holding no failure signal, makes exactly one cache write, (name, input) -> output. *)
C7_StartThenEndWritesOnce ==
    [][(/\ lastEvent.kind = "start"
        /\ lastEvent.name \notin {"invalid_tool", "_Exception", CacheToolsName}
        /\ lastEvent'.kind = "end"
        /\ ~ContainsSignal(lastEvent'.output))
       => /\ cache' = Append(cache, [tool |-> lastEvent.name,
                                     input |-> lastEvent.input,
                                     output |-> lastEvent'.output])
          /\ handlerErr' = NoError]_vars

(* on_tool_start for "Calculator" with "6*7", then on_tool_end("42"): the cache
   holds the one entry ("Calculator", "6*7") -> "42". *)
C7_Witness ==
    /\ nEvents = 2
    /\ lastEvent.kind = "end"
    /\ cache = <<[tool |-> "Calculator", input |-> "6*7", output |-> "42"]>>

(* C8: on_tool_end with an output that holds a failure signal leaves the cache and
   the last-used-tool record as they were and raises nothing, whatever the record
   holds, the empty record of a fresh handler included. *)
C8_FailureOutputChangesNothing ==
    [][(/\ nEvents' = nEvents + 1
        /\ lastEvent'.kind = "end"
        /\ ContainsSignal(lastEvent'.output))
       => /\ UNCHANGED <<last_used_tool, cache>>
          /\ handlerErr' = NoError]_vars

(* The first event of a handler is on_tool_end with "Invalid Format ...": the
   record is still empty and nothing was raised. *)
C8_Witness ==
    /\ nEvents = 1
    /\ lastEvent.kind = "end"
    /\ IsSubstring("Invalid Format", lastEvent.output)
    /\ last_used_tool = <<>>
    /\ cache = <<>>
    /\ handlerErr = NoError

(* C9: no cache entry written by the handler has a reserved name or the name of the
   cache-lookup tool as its tool, and the last-used-tool record never holds a
   reserved name. *)
C9_NoReservedNames ==
    /\ \A i \in 1..Len(cache) :
        cache[i].tool \notin {"invalid_tool", "_Exception", CacheToolsName}
    /\ last_used_tool # <<>> =>
        last_used_tool[1].tool \notin {"invalid_tool", "_Exception"}

(* Four events, the last an on_tool_end with a clean output while the record
   holds the cache-lookup tool: the cache has the one entry of the first pair. *)
C9_Witness ==
    /\ nEvents = 4
    /\ lastEvent.kind = "end"
    /\ ~ContainsSignal(lastEvent.output)
    /\ last_used_tool # <<>>
    /\ last_used_tool[1].tool = CacheToolsName
    /\ Len(cache) = 1

-----------------------------------------------------------------------------
(* Properties of ToolsHandler under two concurrent invocations, checked under
   SpecRace. *)

(* The thread whose invocation produced this output. *)
WriterOf(out) == CHOOSE p \in Threads : RaceOutput[p] = out

(* C10: with two invocations running concurrently on one handler, the cache can
   receive an entry that pairs one invocation's (tool, input) with the other's
   output (the witness); and an entry whose key is not the one its own invocation
   started with arises only this way: the invocation's name was reserved, or
   another invocation's on_tool_start was recorded between its on_tool_start and
   its cache write. *)
C10_MispairedOnlyWhenInterleaved ==
    \A i \in 1..Len(cache) :
        LET p == WriterOf(cache[i].output)
        IN  (cache[i].tool # inv[p].name \/ cache[i].input # inv[p].input)
            => (inv[p].name \in ReservedNames \/ inv[p].overlapped)

(* The cache holds thread 2's key ("Search", "2+2") with thread 1's output "42",
   although thread 1 started "Calculator" with "6*7". *)
C10_Witness ==
    /\ inv[1].name = "Calculator"
    /\ inv[2].name = "Search"
    /\ \E i \in 1..Len(cache) :
        cache[i] = [tool |-> "Search", input |-> "2+2", output |-> "42"]

-----------------------------------------------------------------------------
(* Properties of the tools of a Task, checked under SpecTools. *)

(* C11 as stated: execute hands to the backend the caller's tools if given, else
   the task's own tools, else the tools of the agent that performs the execution,
   attached or supplied. *)
C11_ToolsOfPerformingAgent ==
    handed.agent # None =>
        handed.tools = IF handed.toolsArg # <<>> THEN handed.toolsArg
                       ELSE IF tk.tools # <<>> THEN tk.tools
                       ELSE handed.agentTools

(* C11 as amended: execute hands to the backend the caller's tools if given, else
   the task's own tools; these are the tools the constructor was given or, when
   it was given none, the tools the agent attached at construction had then. The
   tools of an agent supplied to execute, or attached later, are not looked at. *)
C11_ToolsOverrideThenOwn ==
    /\ handed.agent # None =>
        handed.tools = IF handed.toolsArg # <<>> THEN handed.toolsArg ELSE tk.tools
    /\ tk.built =>
        tk.tools = IF tk.ctorTools # <<>> THEN tk.ctorTools ELSE tk.ctorAgentTools

(* A task constructed without tools and without agent was executed by a supplied
   agent that has tools, with no tools given: the backend was handed none. *)
C11_Witness ==
    /\ tk.built /\ tk.ctorTools = <<>> /\ tk.ctorAgent = None
    /\ handed.agent = "a2"
    /\ handed.toolsArg = <<>>
    /\ handed.agentTools = <<"search">>
    /\ handed.tools = <<>>

(* C14: a task constructed with no tools and an agent that has tools holds that
   agent's tools of the moment of construction, and keeps them whatever happens
   later: the agent's tools changed, the task executed, by another agent too. *)
C14_ToolsDefaultedOnce ==
    (tk.built /\ tk.ctorTools = <<>> /\ tk.ctorAgent # None /\ tk.ctorAgentTools # <<>>)
        => tk.tools = tk.ctorAgentTools

(* The task took <<"search">> from agent a1 at construction; since then a1 was
   given other tools and the task was executed by agent a2. *)
C14_Witness ==
    /\ tk.built /\ tk.ctorTools = <<>> /\ tk.ctorAgent = "a1"
    /\ tk.ctorAgentTools = <<"search">>
    /\ agentTools["a1"] = <<"calc", "search">>
    /\ handed.agent = "a2"
    /\ handed.agentTools # <<"search">>
    /\ tk.tools = <<"search">>

-----------------------------------------------------------------------------
(* Properties of the delegation tools, checked under SpecDelegate. The command is
   taken apart here by the positions of its "|" characters. *)

PipesOf(cmd) == {i \in 1..Len(cmd) : SubSeq(cmd, i, i) = "|"}
FirstPipe(cmd) == CHOOSE k \in PipesOf(cmd) : \A j \in PipesOf(cmd) : k <= j
LastPipe(cmd) == CHOOSE k \in PipesOf(cmd) : \A j \in PipesOf(cmd) : k >= j
RoleOf(cmd) == SubSeq(cmd, 1, FirstPipe(cmd) - 1)
TaskOf(cmd) == SubSeq(cmd, FirstPipe(cmd) + 1, LastPipe(cmd) - 1)
ContextOf(cmd) == SubSeq(cmd, LastPipe(cmd) + 1, Len(cmd))
WellFormed(cmd) ==
    /\ Cardinality(PipesOf(cmd)) = 2
    /\ FirstPipe(cmd) > 1
    /\ LastPipe(cmd) > FirstPipe(cmd) + 1
    /\ LastPipe(cmd) < Len(cmd)
Known(role) == \E i \in 1..Len(agents) : agents[i] = role

(* C12: delegate_work and ask_question return a string and raise nothing; a
   command that does not split on "|" into three non-empty parts returns the
   missing-parameter message, a command whose role no agent has returns the
   unknown-coworker message with the roles, and neither calls execute_task. *)
C12_BadCommandReturnsMessage ==
    nDeleg > 0 =>
        /\ deleg.returned # None
        /\ deleg.raised = NoError
        /\ ~WellFormed(deleg.command) =>
            deleg.returned = MissingParamMsg /\ deleg.calls = <<>>
        /\ (WellFormed(deleg.command) /\ ~Known(RoleOf(deleg.command))) =>
            /\ deleg.calls = <<>>
            /\ deleg.returned =
                "Error executing tool. Co-worker not found, it must be one of: "
                    \o JoinComma(agents) \o "."

(* delegate_work("Unknown|x|y") with agents of other roles returned the
   unknown-coworker message listing them, and called no agent. *)
C12_Witness ==
    /\ deleg.via = "delegate_work"
    /\ deleg.command = "Unknown|x|y"
    /\ agents = <<"Researcher", "Writer">>
    /\ deleg.calls = <<>>
    /\ deleg.returned =
        "Error executing tool. Co-worker not found, it must be one of: Researcher, Writer."

(* C13: a well-formed command whose role an agent has makes exactly one call of
   execute_task, on the first agent of that role in list order, with the parsed
   task and context, and returns what that call returned. *)
C13_FirstAgentOfRoleIsCalled ==
    (nDeleg > 0 /\ WellFormed(deleg.command) /\ Known(RoleOf(deleg.command))) =>
        LET first == CHOOSE i \in 1..Len(agents) :
                        /\ agents[i] = RoleOf(deleg.command)
                        /\ \A j \in 1..(i - 1) : agents[j] # RoleOf(deleg.command)
        IN  /\ deleg.calls = <<[agent |-> first, task |-> TaskOf(deleg.command),
                                context |-> ContextOf(deleg.command)]>>
            /\ deleg.returned = DelegateResult(first, TaskOf(deleg.command),
                                               ContextOf(deleg.command))

(* Two agents have the role "Researcher", at 2 and 3: the one at 2 was called with
   "find facts" and "background info", and its answer was returned. *)
C13_Witness ==
    /\ agents = <<"Writer", "Researcher", "Researcher">>
    /\ deleg.via = "ask_question"
    /\ deleg.command = "Researcher|find facts|background info"
    /\ deleg.calls = <<[agent |-> 2, task |-> "find facts",
                        context |-> "background info"]>>
    /\ deleg.returned = "answer of agent 2"

-----------------------------------------------------------------------------
(* C15: a call of execute on a dependent sets up the dependent's run of _execute
   (the only place of its backend call and of its output assignment) only when
   the thread of every asynchronous upstream task has terminated with the
   upstream's output assigned; and as long as the thread it is joining has not
   terminated, the call takes no step at all: only the upstream's completion
   releases it. Checked under Spec. *)
C15_BlockedUntilUpstreamCompletes ==
    [][/\ (Len(execs') > Len(execs) /\ context[execs'[Len(execs')].task] # <<>>)
            => \A u \in Upstream(execs'[Len(execs')].task) :
                    async_execution[u] =>
                        /\ thread[u] # 0
                        /\ execs[thread[u]].pc = "done"
                        /\ execs[thread[u]].assigns = 1
       /\ (/\ main.pc = "join"
           /\ thread[context[main.task][main.i]] # 0
           /\ execs[thread[context[main.task][main.i]]].pc # "done")
            => /\ main' = main
               /\ Len(execs') = Len(execs)
               /\ ret' = ret /\ err' = err
      ]_vars

(* The dependent's call waits in join for upstream task 1, whose thread is started
   and has not yet called the backend; the dependent has no run of _execute. *)
C15_Witness ==
    /\ main.pc = "join"
    /\ main.task = 3
    /\ main.i = 1
    /\ thread[1] # 0
    /\ execs[thread[1]].pc = "call"
    /\ ExecsOf(3) = {}
    /\ output[3] = <<>>

-----------------------------------------------------------------------------
(* C16: under SpecFair every run of _execute that was set up, inline or in a
   thread, eventually returns with the task's output assigned, and every call of
   execute waiting in a join eventually returns without an error, its own run of
   _execute set up. *)
C16_StartedTasksComplete ==
    /\ \A e \in 1..MaxCalls :
            (Len(execs) >= e) ~>
                (/\ Len(execs) >= e
                 /\ execs[e].pc = "done"
                 /\ execs[e].assigns = 1
                 /\ output[execs[e].task] # <<>>)
    /\ (main.pc = "join") ~>
            (/\ main.pc = "idle"
             /\ err = NoError
             /\ ExecsOf(main.task) # {})

(* The dependent's call has gone through both joins and its own run of _execute,
   started after both upstream threads, has returned with the output assigned. *)
C16_Witness ==
    /\ async_execution[1] /\ async_execution[2]
    /\ main.pc = "idle"
    /\ main.task = 3
    /\ Len(execs) = 3
    /\ \A e \in 1..3 : execs[e].pc = "done"
    /\ \A t \in Tasks : output[t] # <<>>

-----------------------------------------------------------------------------
(* C17: under SpecPaired, whatever an on_tool_end writes to the cache is written
   under the tool name and the input of the on_tool_start it is paired with (the
   event just before it), with its own output. *)
C17_WrittenUnderOwnInvocation ==
    [][(lastEvent'.kind = "end" /\ Len(cache') > Len(cache))
            => /\ lastEvent.kind = "start"
               /\ cache'[Len(cache')] = [tool |-> lastEvent.name,
                                         input |-> lastEvent.input,
                                         output |-> lastEvent'.output]
      ]_vars

-----------------------------------------------------------------------------
(* C18: under SpecHandler, when an on_tool_end has written the recorded
   (tool, input) to the cache, an on_tool_end that comes right after it, with no
   on_tool_start in between, writes nothing. *)
C18_RecordReadOnce ==
    [][(/\ lastEvent.kind = "end"
        /\ ~ContainsSignal(lastEvent.output)
        /\ last_used_tool # <<>>
        /\ last_used_tool[1].tool # CacheToolsName
        /\ lastEvent'.kind = "end"
        /\ nEvents' = nEvents + 1)
            => cache' = cache
      ]_vars

-----------------------------------------------------------------------------
(* C20: under SpecHandler, an on_tool_end whose output holds no failure signal,
   received while the record is still the initial empty one, ends in a KeyError
   and leaves the cache without any entry. *)
C20_EmptyRecordEndFails ==
    (/\ lastEvent.kind = "end"
     /\ last_used_tool = <<>>
     /\ ~ContainsSignal(lastEvent.output))
        => /\ handlerErr = "KeyError"
           /\ cache = <<>>

(* The handler received on_tool_start with a reserved name, which recorded
   nothing, then on_tool_end("42"), which raised. *)
C20_Witness ==
    /\ nEvents = 2
    /\ lastEvent.kind = "end"
    /\ lastEvent.output = "42"
    /\ last_used_tool = <<>>
    /\ handlerErr = "KeyError"
    /\ cache = <<>>

-----------------------------------------------------------------------------
(* C19: under SpecFail, a call of execute on a dependent that finds an upstream
   task of its context without output (never started, never executed, or its
   backend call raised) has ended in an AttributeError with no run of _execute
   set up for the dependent and the dependent's output absent; no run of a
   dependent exists with an upstream output missing from its context string; and
   a call inside the context loop always comes out of it. *)
C19_MissingUpstreamOutputIsAnError ==
    /\ [](/\ (/\ main.pc = "idle"
              /\ nCalls > 0
              /\ \E u \in Upstream(main.task) : output[u] = <<>>)
                => /\ err = "AttributeError"
                   /\ ExecsOf(main.task) = {}
                   /\ output[main.task] = <<>>
          /\ \A e \in ExecIds :
                LET t == execs[e].task
                IN  context[t] # <<>> =>
                        /\ \A u \in Upstream(t) : output[u] # <<>>
                        /\ execs[e].context =
                            JoinNL([i \in 1..Len(context[t]) |->
                                        output[context[t][i]][1].result]))
    /\ (main.pc \in {"join", "read"}) ~> (main.pc \in {"idle", "run"})

(* Upstream task 1 was started in a thread and its backend call raised; the
   dependent's call joined the thread, found no output and ended in an error. *)
C19_Witness ==
    /\ main.pc = "idle"
    /\ main.task = 3
    /\ err = "AttributeError"
    /\ thread[1] # 0
    /\ execs[thread[1]].pc = "failed"
    /\ output[1] = <<>>
    /\ ExecsOf(3) = {}
    /\ output[3] = <<>>

=============================================================================
